---- MODULE Spec2Model ----
(***************************************************************************)
(* HassAgentMediaPlayerDevice (custom_components/hass_agent/               *)
(* media_player.py): the mirror of a remote media player, fed by MQTT      *)
(* state and thumbnail messages and driving the player by commands         *)
(* published on one command topic.                                         *)
(*                                                                         *)
(* Conventions of the model                                                *)
(*   - a nullable Python value is None (the empty tuple) or Some(v);       *)
(*   - times are integers, TicksPerSecond ticks to the second;             *)
(*   - a URL or topic is the tuple of the pieces its f-string joins;       *)
(*   - a media type is the tuple of its characters (startswith is then     *)
(*     computed, not tabulated);                                           *)
(*   - a coroutine suspended at an await is an entry of tasks;             *)
(*   - ev describes the step that led to the current state.                *)
(***************************************************************************)
EXTENDS Integers, Sequences, FiniteSets, TLC

VARIABLES self, now, listeners, thumbnail, tasks, ev

vars == <<self, now, listeners, thumbnail, tasks, ev>>

(***************************************************************************)
(* Bounds of the model.                                                    *)
(***************************************************************************)
TicksPerSecond == 10
MaxTasks == 2
MaxTicks == 1
MaxClockTicks == 1

(***************************************************************************)
(* Python values.                                                          *)
(***************************************************************************)
None == <<>>
Some(v) == <<v>>
Truthy(o) == o # None /\ o # Some("")
OrElse(a, b) == IF Truthy(a) THEN a ELSE b
\* Truthiness of a nullable URL (the empty URL is the empty tuple).
TruthyUrl(o) == o # None /\ o # Some(<<>>)

\* The value of _state that `is None` tests for; no str.lower() result and
\* no MediaPlayerState member equals it.
NoneState == "None"

\* MediaPlayerState is a StrEnum: a member equals its string value.
OFF == "off"
IDLE == "idle"
PLAYING == "playing"
PAUSED == "paused"
STANDBY == "standby"
BUFFERING == "buffering"

\* str.lower() on the state strings the model feeds in.
Lower(s) ==
    CASE s = "OFF" -> "off"
      [] s = "Off" -> "off"
      [] s = "Idle" -> "idle"
      [] s = "Playing" -> "playing"
      [] s = "PAUSED" -> "paused"
      [] s = "Standby" -> "standby"
      [] s = "BUFFERING" -> "buffering"
      [] s = "Weird" -> "weird"
      [] OTHER -> s

\* Python 3 round(x) of the rational x = num/den (den > 0): nearest integer,
\* ties to the even one.
Round(num, den) ==
    LET q == num \div den
        r == num % den
    IN  IF 2 * r < den THEN q
        ELSE IF 2 * r > den THEN q + 1
        ELSE IF q % 2 = 0 THEN q ELSE q + 1

\* str.startswith on character tuples.
StartsWith(s, prefix) ==
    /\ Len(s) >= Len(prefix)
    /\ SubSeq(s, 1, Len(prefix)) = prefix

(***************************************************************************)
(* Construction.                                                           *)
(***************************************************************************)
DeviceName == "pc"
EntityId == "media_player.pc"

CommandTopic(name) == <<"hass.agent/media_player/", name, "/cmd">>
StateTopic(name) == <<"hass.agent/media_player/", name, "/state">>
ThumbnailTopic(name) == <<"hass.agent/media_player/", name, "/thumbnail">>

\* __init__, with the MediaPlayerEntity defaults (None) of the _attr_ fields
\* that __init__ leaves alone.
InitSelf ==
    [ command_topic |-> CommandTopic(DeviceName),
      available |-> FALSE,
      muted |-> FALSE,
      volume_level |-> 0,
      state |-> "",
      media_id |-> <<>>,
      last_updated |-> 0,
      media_title |-> None,
      media_artist |-> None,
      media_album_name |-> None,
      media_album_artist |-> None,
      media_duration |-> None,
      media_position |-> None,
      media_position_updated_at |-> None,
      media_image_url |-> None ]

(***************************************************************************)
(* Read-only properties.                                                   *)
(***************************************************************************)
\* The state property with OFF as its fallback.
StateOfFallbackOff(s) ==
    IF s.state = NoneState THEN OFF
    ELSE IF s.state = "idle" THEN IDLE
    ELSE IF s.state = "playing" THEN PLAYING
    ELSE IF s.state = "paused" THEN PAUSED
    ELSE IF s.state = "standby" THEN STANDBY
    ELSE IF s.state = "buffering" THEN BUFFERING
    ELSE OFF

\* state: the if-chain of the property.
StateOf(s) ==
    IF s.state = NoneState THEN OFF
    ELSE IF s.state = "idle" THEN IDLE
    ELSE IF s.state = "playing" THEN PLAYING
    ELSE IF s.state = "paused" THEN PAUSED
    ELSE IF s.state = "standby" THEN STANDBY
    ELSE IF s.state = "buffering" THEN BUFFERING
    ELSE IDLE

AvailableThreshold == 5

\* Available with the difference truncated to whole seconds.
AvailableTruncated(s, t) ==
    LET diff == (t - s.last_updated) \div TicksPerSecond
    IN  diff < AvailableThreshold

\* available: round(time.time() - self._last_updated) < 5, at time t.
Available(s, t) ==
    LET diff == Round(t - s.last_updated, TicksPerSecond)
    IN  diff < AvailableThreshold

VolumeScale == 100

\* volume_level: self._volume_level / 100.0, as the rational <<num, den>>.
VolumeLevel(s) == <<s.volume_level, VolumeScale>>

IsVolumeMuted(s) == s.muted
MediaContentId(s) == s.media_id
MediaImageLocal(s) == s.media_image_url

(***************************************************************************)
(* updated(message): the state-topic handler.                              *)
(***************************************************************************)
NoExc == "none"
Ok(s) == [self |-> s, exc |-> NoExc]
Raised(s, e) == [self |-> s, exc |-> e]

\* payload[k] raises KeyError unless k is a key of the decoded object.
Has(payload, k) == k \in payload.keys

\* lines 93-96
StoreStatus(s, payload) ==
    IF ~Has(payload, "state") THEN Raised(s, "KeyError")
    ELSE LET a == [s EXCEPT !.state = Lower(payload.state)] IN
    IF ~Has(payload, "volume") THEN Raised(a, "KeyError")
    ELSE LET b == [a EXCEPT !.volume_level = payload.volume] IN
    IF ~Has(payload, "muted") THEN Raised(b, "KeyError")
    ELSE Ok([b EXCEPT !.muted = payload.muted, !.available = TRUE])

\* The test of line 98 against "OFF", which no lower-cased state equals.
NotOffUpperCase(s) == s.state # "OFF"

\* line 98
NotOff(s) == s.state # "off"

\* lines 99-103
StoreTrack(s, payload) ==
    IF ~Has(payload, "title") THEN Raised(s, "KeyError")
    ELSE IF ~Truthy(payload.title) THEN Ok(s)
    ELSE LET a == [s EXCEPT !.media_title = payload.title] IN
    IF ~Has(payload, "artist") THEN Raised(a, "KeyError")
    ELSE LET b == [a EXCEPT !.media_artist = payload.artist] IN
    IF ~Has(payload, "albumtitle") THEN Raised(b, "KeyError")
    ELSE LET c == [b EXCEPT !.media_album_name = payload.albumtitle] IN
    IF ~Has(payload, "albumartist") THEN Raised(c, "KeyError")
    ELSE Ok([c EXCEPT !.media_album_artist = payload.albumartist])

\* Lines 105-107 adding the reported position to the stored one.
StorePositionRelative(s, payload, t) ==
    IF ~Has(payload, "duration") THEN Raised(s, "KeyError")
    ELSE LET a == [s EXCEPT !.media_duration = payload.duration] IN
    IF ~Has(payload, "currentposition") THEN Raised(a, "KeyError")
    ELSE Ok([a EXCEPT !.media_position =
                          IF s.media_position = None \/ @ = None
                          THEN payload.currentposition
                          ELSE Some(s.media_position[1]
                                    + payload.currentposition[1]),
                      !.media_position_updated_at = Some(t)])

\* lines 105-107
StorePosition(s, payload, t) ==
    IF ~Has(payload, "duration") THEN Raised(s, "KeyError")
    ELSE LET a == [s EXCEPT !.media_duration = payload.duration] IN
    IF ~Has(payload, "currentposition") THEN Raised(a, "KeyError")
    ELSE Ok([a EXCEPT !.media_position = payload.currentposition,
                      !.media_position_updated_at = Some(t)])

\* lines 98-107
StoreMedia(s, payload, t) ==
    IF NotOff(s)
    THEN LET r == StoreTrack(s, payload) IN
         IF r.exc # NoExc THEN r ELSE StorePosition(r.self, payload, t)
    ELSE Ok(s)

\* Lines 109-110 forgetting the media id as well.
StampClearingMediaId(s, t) == [s EXCEPT !.last_updated = t, !.media_id = <<>>]

\* lines 109-110: stamp and notify.
Stamp(s, t) == [s EXCEPT !.last_updated = t]

\* The whole handler at time t: the mirror it leaves, the exception it
\* raises (NoExc when it returns) and its calls of async_write_ha_state.
updated(s, message, t) ==
    IF ~message.is_json
    THEN [self |-> s, exc |-> "JSONDecodeError", writes |-> 0]
    ELSE LET r1 == StoreStatus(s, message.obj) IN
         IF r1.exc # NoExc
         THEN [self |-> r1.self, exc |-> r1.exc, writes |-> 0]
         ELSE LET r2 == StoreMedia(r1.self, message.obj, t) IN
              IF r2.exc # NoExc
              THEN [self |-> r2.self, exc |-> r2.exc, writes |-> 0]
              ELSE [self |-> Stamp(r2.self, t), exc |-> NoExc, writes |-> 1]

(***************************************************************************)
(* update_thumbnail(message): the thumbnail-topic handler, lines 78-82.    *)
(***************************************************************************)
ThumbnailUrl(entity_id, t) ==
    <<"/api/hass_agent/", entity_id, "/thumbnail.png?time=", t>>

update_thumbnail(s, t) ==
    [s EXCEPT !.media_image_url = Some(ThumbnailUrl(EntityId, t))]

(***************************************************************************)
(* Commands.  A command operator gives the mirror the method leaves before *)
(* its await and the arguments it hands to _send_command.                  *)
(***************************************************************************)
Command(s, command, data, info) ==
    [self |-> s, command |-> command, data |-> data, info |-> info]

\* json.dumps of the envelope dict: the members in insertion order.
JsonDumps(command, data, info) ==
    << <<"command", command>>, <<"data", data>>, <<"info", info>> >>

\* _send_command publishing on the state topic.
SendCommandOnStateTopic(s, command, data, info) ==
    [topic |-> StateTopic(DeviceName),
     payload |-> JsonDumps(command, data, info)]

\* _send_command: the one call of mqtt.async_publish(topic, payload).
SendCommand(s, command, data, info) ==
    [topic |-> s.command_topic, payload |-> JsonDumps(command, data, info)]

\* async_set_volume_level with int() for round().
async_set_volume_level_truncating(s, volume) ==
    Command(s, "setvolume", Some((volume[1] * 100) \div volume[2]), None)

async_set_volume_level(s, volume) ==
    Command(s, "setvolume", Some(Round(volume[1] * 100, volume[2])), None)

async_turn_off(s) ==
    Command([s EXCEPT !.state = IDLE], "pause", None, None)

async_media_seek(s, position, t) ==
    Command([s EXCEPT !.media_position = Some(position),
                      !.media_position_updated_at = Some(t)],
            "seek", Some(position), None)

async_volume_up(s) == Command(s, "volumeup", None, None)

async_volume_down(s) == Command(s, "volumedown", None, None)

async_mute_volume(s, mute) == Command(s, "mute", None, None)

async_media_play(s) ==
    Command([s EXCEPT !.state = PLAYING], "play", None, None)

async_media_pause(s) ==
    Command([s EXCEPT !.state = PAUSED], "pause", None, None)

\* async_media_stop sending a command of its own.
async_media_stop_sending_stop(s) ==
    Command([s EXCEPT !.state = IDLE], "stop", None, None)

async_media_stop(s) ==
    Command([s EXCEPT !.state = IDLE], "pause", None, None)

async_media_next_track(s) == Command(s, "next", None, None)

async_media_previous_track(s) == Command(s, "previous", None, None)

(***************************************************************************)
(* async_play_media.                                                       *)
(***************************************************************************)
Chars(w) ==
    CASE w = "music" -> <<"m", "u", "s", "i", "c">>
      [] w = "audio/" -> <<"a", "u", "d", "i", "o", "/">>
      [] w = "provider" -> <<"p", "r", "o", "v", "i", "d", "e", "r">>
      [] w = "audio" -> <<"a", "u", "d", "i", "o">>
      [] w = "audio/mp3" -> <<"a", "u", "d", "i", "o", "/", "m", "p", "3">>
      [] w = "video/mp4" -> <<"v", "i", "d", "e", "o", "/", "m", "p", "4">>
      [] w = "musical" -> <<"m", "u", "s", "i", "c", "a", "l">>

\* The test of line 292 with "audio" for "audio/".
MediaTypeAcceptedAudio(media_type) ==
    ~(/\ ~StartsWith(media_type, Chars("music"))
      /\ ~StartsWith(media_type, Chars("audio"))
      /\ ~StartsWith(media_type, Chars("provider")))

\* line 292
MediaTypeAccepted(media_type) ==
    ~(/\ ~StartsWith(media_type, Chars("music"))
      /\ ~StartsWith(media_type, Chars("audio/"))
      /\ ~StartsWith(media_type, Chars("provider")))

\* media_source.is_media_source_id: the id has the media-source scheme.
IsMediaSourceId(media_id) == media_id[1] = "media-source://"

\* media_source.async_resolve_media(...).url: the URL the source serves the
\* item under, a path on this host.
ResolvedUrl(media_id) == <<"/media/", media_id[2]>>

\* async_process_play_media_url: a path on this host becomes an absolute,
\* signed URL; any other URL is returned as it is.
ProcessPlayMediaUrl(media_id) ==
    IF media_id[1] = "/media/"
    THEN <<"http://hass:8123", media_id[1], media_id[2], "?authSig">>
    ELSE media_id

NoMetadata ==
    [title |-> None, artist |-> None, album_name |-> None, albumtitle |-> None,
     album_artist |-> None, albumartist |-> None, images |-> <<>>,
     imageUrl |-> None]

\* lines 310-312: kwargs.get(ATTR_MEDIA_EXTRA) or {}, extra.get("metadata") or {}
MetadataOf(kwargs) ==
    IF kwargs.extra = None THEN NoMetadata
    ELSE IF kwargs.extra[1].metadata = None THEN NoMetadata
    ELSE kwargs.extra[1].metadata[1]

\* lines 318-320
ImageUrlOf(metadata) ==
    LET images == metadata.images
    IN  IF images # <<>> /\ TruthyUrl(images[1].url)
        THEN images[1].url
        ELSE metadata.imageUrl

\* Lines 308-331 with the info title taken from the metadata, not from the
\* mirror.
PlayMediaInfoFromMetadata(s, media_id, kwargs) ==
    LET metadata == MetadataOf(kwargs)
        a == [s EXCEPT
                !.media_id = ProcessPlayMediaUrl(media_id),
                !.media_title = OrElse(metadata.title, Some("Home Assistant")),
                !.media_artist = metadata.artist,
                !.media_album_name =
                    OrElse(metadata.album_name, metadata.albumtitle),
                !.media_album_artist =
                    OrElse(metadata.album_artist, metadata.albumartist),
                !.media_image_url = ImageUrlOf(metadata),
                !.available = TRUE,
                !.state = PLAYING]
        info == << <<"title", metadata.title>>,
                   <<"artist", a.media_artist>>,
                   <<"albumtitle", a.media_album_name>>,
                   <<"albumartist", a.media_album_artist>>,
                   <<"image_url", a.media_image_url>> >>
    IN  Command(a, "playmedia", Some(a.media_id), Some(info))

\* lines 308-331, media_id already resolved.
PlayMedia(s, media_id, kwargs) ==
    LET metadata == MetadataOf(kwargs)
        a == [s EXCEPT
                !.media_id = ProcessPlayMediaUrl(media_id),
                !.media_title = OrElse(metadata.title, Some("Home Assistant")),
                !.media_artist = metadata.artist,
                !.media_album_name =
                    OrElse(metadata.album_name, metadata.albumtitle),
                !.media_album_artist =
                    OrElse(metadata.album_artist, metadata.albumartist),
                !.media_image_url = ImageUrlOf(metadata),
                !.available = TRUE,
                !.state = PLAYING]
        info == << <<"title", a.media_title>>,
                   <<"artist", a.media_artist>>,
                   <<"albumtitle", a.media_album_name>>,
                   <<"albumartist", a.media_album_artist>>,
                   <<"image_url", a.media_image_url>> >>
    IN  Command(a, "playmedia", Some(a.media_id), Some(info))

(***************************************************************************)
(* Inputs.                                                                 *)
(***************************************************************************)
AllKeys ==
    {"state", "volume", "muted", "title", "artist", "albumtitle",
     "albumartist", "duration", "currentposition"}

StateStrings ==
    {"off", "OFF", "idle", "playing", "Playing", "paused", "standby",
     "buffering", "weird"}

\* <<volume, muted>>
Levels == {<<40, TRUE>>, <<101, FALSE>>}

\* <<title, artist, albumtitle, albumartist, duration, currentposition>>
Tracks ==
    { <<Some("A"), Some("X"), Some("L"), Some("M"), Some(200), Some(10)>>,
      <<Some("B"), None, Some("N"), Some("O"), Some(300), Some(20)>>,
      <<Some(""), Some("Z"), Some("P"), Some("Q"), Some(250), Some(15)>>,
      <<None, Some("Z"), Some("P"), Some("Q"), Some(250), Some(15)>> }

Snapshot(keys, st, lv, tr) ==
    [is_json |-> TRUE,
     obj |-> [keys |-> keys, state |-> st, volume |-> lv[1], muted |-> lv[2],
              title |-> tr[1], artist |-> tr[2], albumtitle |-> tr[3],
              albumartist |-> tr[4], duration |-> tr[5],
              currentposition |-> tr[6]]]

\* A payload that json.loads rejects.
NotJson == [is_json |-> FALSE, obj |-> [keys |-> {}]]

TrackA == <<Some("A"), Some("X"), Some("L"), Some("M"), Some(200), Some(10)>>

\* Every state string, every level and every track occurs; a state that
\* reads "off" occurs with every track.
CompleteMessages ==
    {Snapshot(AllKeys, st, <<40, TRUE>>, TrackA) : st \in StateStrings}
    \cup {Snapshot(AllKeys, "idle", lv, TrackA) : lv \in Levels}
    \cup {Snapshot(AllKeys, st, <<40, TRUE>>, tr) :
            st \in {"off", "OFF", "Playing"}, tr \in Tracks}

TrackB == <<Some("B"), None, Some("N"), Some("O"), Some(300), Some(20)>>

\* One of state, volume, muted and title is missing; or state, volume,
\* muted and a title are there and the artist is missing.
IncompleteMessages ==
    {Snapshot(AllKeys \ {k}, st, <<40, TRUE>>, TrackA) :
        k \in {"state", "volume", "muted", "title"}, st \in {"playing", "off"}}
    \cup {Snapshot(AllKeys \ {"artist"}, "playing", <<40, TRUE>>, TrackB)}

Messages == CompleteMessages \cup IncompleteMessages \cup {NotJson}

ClockMessages ==
    {Snapshot(AllKeys, st, <<40, TRUE>>, TrackA) : st \in {"playing", "off"}}

\* The one snapshot that fills the mirror before the commands.
CmdMessages == {Snapshot(AllKeys, "playing", <<40, TRUE>>, TrackA)}

\* A snapshot of each kind: with a title, "off", with a state string that
\* is none of the six names, and without a title.
MixMessages ==
    ClockMessages
    \cup {Snapshot(AllKeys, "weird", <<40, TRUE>>, TrackA)}
    \cup {Snapshot(AllKeys, "Playing", <<40, TRUE>>, tr) :
            tr \in {t \in Tracks : ~Truthy(t[1])}}

Thumbnails == {"png"}

Positions == {30}

\* setVolume fractions <<numerator, denominator>>
Fractions ==
    {<<0, 1>>, <<1, 2>>, <<1, 1>>, <<4, 1000>>, <<1, 200>>, <<3, 200>>,
     <<7, 1000>>}

MediaTypes ==
    {Chars("music"), Chars("audio/mp3"), Chars("provider"), Chars("video/mp4"),
     Chars("audio"), Chars("musical")}

MediaIds == {<<"media-source://", "x">>, <<"http://host/a.mp3">>}

Kwargs ==
    { [extra |-> None],
      [extra |-> Some([metadata |->
          Some([NoMetadata EXCEPT !.title = Some("Song A")])])],
      [extra |-> Some([metadata |->
          Some([title |-> Some(""), artist |-> Some("R"),
                album_name |-> None, albumtitle |-> Some("S"),
                album_artist |-> Some("T"), albumartist |-> Some("U"),
                images |-> <<[url |-> Some(<<"http://img/1.png">>)]>>,
                imageUrl |-> Some(<<"http://img/2.png">>)])])] }

(***************************************************************************)
(* The state machine.                                                      *)
(***************************************************************************)
InitNow == 100 * TicksPerSecond

\* The step just taken: the method that ran, how it left off ("returned",
\* "raised" or "suspended" at an await), the exception it raised, the
\* mqtt.async_publish calls it made and its async_write_ha_state calls.
Event(op, phase, exc, published, writes) ==
    [op |-> op, phase |-> phase, exc |-> exc, published |-> published,
     writes |-> writes]

\* The two topics, in the order of the dict of lines 116-128, which is the
\* order in which async_subscribe_topics subscribes them.
TopicOrder == <<"state", "thumbnail">>

Topics == {"state", "thumbnail"}

\* How the subscribe of one topic behaves in the Home Assistant that runs
\* the mirror: it suspends and registers the callback when it is resumed;
\* it registers the callback and then suspends; or it registers the callback
\* without suspending.
Helpers == {"suspend_then_register", "register_then_suspend", "no_suspend"}

\* The subscriptions of the mirror:
\*   helper      how the subscribe of a topic behaves (see Helpers);
\*   prepared    _listeners holds an entry for each topic (line 113 has
\*               run);
\*   subscribed  the topics whose msg_callback is registered;
\*   handles     for each topic, the unsubscribe callback in its entry of
\*               _listeners: "none", "live", or "used" once it was called;
\*   adding      0, or the position in TopicOrder of the topic whose
\*               subscribe the suspended async_added_to_hass awaits (line
\*               131);
\*   stale       a later async_added_to_hass has replaced _listeners while
\*               that call is suspended: the dict it iterates was emptied
\*               and its entries are no more those of _listeners;
\*   removed     async_will_remove_from_hass has run since the last call of
\*               async_added_to_hass.
InitListeners(helper) ==
    [helper |-> helper, prepared |-> FALSE, subscribed |-> {},
     handles |-> [t \in Topics |-> "none"], adding |-> 0, stale |-> FALSE,
     removed |-> FALSE]

Init ==
    /\ self = InitSelf
    /\ now = InitNow
    /\ \E helper \in Helpers : listeners = InitListeners(helper)
    /\ thumbnail = None
    /\ tasks = <<>>
    /\ ev = Event("__init__", "returned", NoExc, <<>>, 0)

\* The wall clock advances to a later one of the instants at which the
\* program is observed.
Tick(instants) ==
    /\ \E t \in instants : t > now /\ now' = t
    /\ ev' = Event("tick", "returned", NoExc, <<>>, 0)
    /\ UNCHANGED <<self, listeners, thumbnail, tasks>>

StateSubscribed == "state" \in listeners.subscribed
ThumbnailSubscribed == "thumbnail" \in listeners.subscribed
Adding == IF listeners.adding = 0 THEN 0 ELSE 1

\* async_added_to_hass up to its await or its end.  The first call finds
\* _listeners empty, prepares an entry for each topic and subscribes them
\* in async_subscribe_topics, where it is suspended unless the subscribe
\* does not suspend.  A later call finds the entries of the same topics,
\* so it subscribes nothing and returns; it replaces _listeners by new
\* entries that take over the unsubscribe callbacks as they are, and
\* empties the dict a suspended first call iterates.  Nothing in the method
\* refuses a call.
AddedToHass ==
    /\ listeners' =
          IF listeners.prepared
          THEN [listeners EXCEPT
                  !.removed = FALSE,
                  !.stale = @ \/ listeners.adding # 0]
          ELSE CASE listeners.helper = "no_suspend" ->
                      [listeners EXCEPT
                          !.prepared = TRUE,
                          !.removed = FALSE,
                          !.subscribed = Topics,
                          !.handles = [t \in Topics |-> "live"]]
                 [] listeners.helper = "register_then_suspend" ->
                      [listeners EXCEPT
                          !.prepared = TRUE,
                          !.removed = FALSE,
                          !.subscribed = {TopicOrder[1]},
                          !.adding = 1]
                 [] OTHER ->
                      [listeners EXCEPT
                          !.prepared = TRUE,
                          !.removed = FALSE,
                          !.adding = 1]
    /\ ev' = Event("async_added_to_hass",
                   IF listeners.prepared \/ listeners.helper = "no_suspend"
                   THEN "returned" ELSE "suspended",
                   NoExc, <<>>, 0)
    /\ UNCHANGED <<self, now, thumbnail, tasks>>

\* The subscribe that the suspended async_added_to_hass awaits returns: the
\* topic is registered (if it was not before the suspension) and its
\* unsubscribe callback is stored in the entry the call holds, which is the
\* entry of _listeners unless a later call has replaced it.  The loop of
\* async_subscribe_topics then goes on: it raises RuntimeError when the
\* dict was emptied meanwhile, returns after the last topic, and else
\* subscribes the next topic and is suspended again.
SubscribeReturns ==
    /\ listeners.adding # 0
    /\ LET i == listeners.adding
           t == TopicOrder[i]
           more == ~listeners.stale /\ i < Len(TopicOrder)
       IN  /\ listeners' =
                 [listeners EXCEPT
                     !.subscribed =
                         @ \cup {t}
                           \cup (IF more /\ listeners.helper
                                               = "register_then_suspend"
                                 THEN {TopicOrder[i + 1]} ELSE {}),
                     !.handles[t] = IF listeners.stale THEN @ ELSE "live",
                     !.adding = IF more THEN i + 1 ELSE 0,
                     !.stale = FALSE]
           /\ ev' = IF listeners.stale
                    THEN Event("async_added_to_hass", "raised",
                               "RuntimeError", <<>>, 0)
                    ELSE Event("async_added_to_hass",
                               IF more THEN "suspended" ELSE "returned",
                               NoExc, <<>>, 0)
    /\ UNCHANGED <<self, now, thumbnail, tasks>>

\* The subscribe that the suspended async_added_to_hass awaits raises; no
\* handler catches it, and what is registered stays registered.
SubscribeRaises ==
    /\ listeners.adding # 0
    /\ listeners' = [listeners EXCEPT !.adding = 0, !.stale = FALSE]
    /\ ev' = Event("async_added_to_hass", "raised", "HomeAssistantError",
                   <<>>, 0)
    /\ UNCHANGED <<self, now, thumbnail, tasks>>

\* The positions in TopicOrder of the entries whose unsubscribe callback
\* was called before.
Used == {i \in DOMAIN TopicOrder : listeners.handles[TopicOrder[i]] = "used"}

\* The topics async_unsubscribe_topics unsubscribes: it calls the
\* unsubscribe callback of each entry of _listeners that has one, in the
\* order of the dict, up to the first one that was called before.
Released ==
    {TopicOrder[i] : i \in
        {k \in DOMAIN TopicOrder :
            /\ listeners.handles[TopicOrder[k]] = "live"
            /\ \A u \in Used : k < u}}

\* async_will_remove_from_hass: _listeners is never None (it starts as {}),
\* so the topics whose entry holds an unsubscribe callback are
\* unsubscribed; an unsubscribe callback called a second time raises
\* HomeAssistantError.  The result is not assigned to _listeners, and a
\* suspended async_added_to_hass is left as it is.
WillRemoveFromHass ==
    /\ listeners' = [listeners EXCEPT
                        !.subscribed = @ \ Released,
                        !.handles = [t \in Topics |->
                                        IF t \in Released THEN "used"
                                        ELSE @[t]],
                        !.removed = TRUE]
    /\ ev' = IF Used = {}
             THEN Event("async_will_remove_from_hass", "returned", NoExc,
                        <<>>, 0)
             ELSE Event("async_will_remove_from_hass", "raised",
                        "HomeAssistantError", <<>>, 0)
    /\ UNCHANGED <<self, now, thumbnail, tasks>>

\* A message on the state topic, which the broker hands to the callback
\* registered for it.
Updated(message) ==
    /\ StateSubscribed
    /\ LET r == updated(self, message, now) IN
        /\ self' = r.self
        /\ ev' = Event("updated",
                       IF r.exc = NoExc THEN "returned" ELSE "raised",
                       r.exc, <<>>, r.writes)
    /\ UNCHANGED <<now, listeners, thumbnail, tasks>>

\* A message on the thumbnail topic, which the broker hands to the callback
\* registered for it.
UpdateThumbnail(bytes) ==
    /\ ThumbnailSubscribed
    /\ thumbnail' = Some(bytes)
    /\ self' = update_thumbnail(self, now)
    /\ ev' = Event("update_thumbnail", "returned", NoExc, <<>>, 0)
    /\ UNCHANGED <<now, listeners, tasks>>

\* A message on a topic whose callback is not registered (not yet, or no
\* more after async_will_remove_from_hass): no callback runs.
Undelivered(topic) ==
    /\ topic = "state" => ~StateSubscribed
    /\ topic = "thumbnail" => ~ThumbnailSubscribed
    /\ ev' = Event("undelivered", "returned", NoExc, <<>>, 0)
    /\ UNCHANGED <<self, now, listeners, thumbnail, tasks>>

\* A suspended coroutine: where it waits, the arguments it still needs and
\* the publish calls it has made.
Task(pc, arg, published) == [pc |-> pc, arg |-> arg, published |-> published]

\* A command method runs up to the await of mqtt.async_publish.
Dispatch(op, c) ==
    /\ Len(tasks) < MaxTasks
    /\ LET call == SendCommand(c.self, c.command, c.data, c.info) IN
        /\ self' = c.self
        /\ tasks' = Append(tasks, Task("publish", None, 1))
        /\ ev' = Event(op, "suspended", NoExc, <<call>>, 0)
    /\ UNCHANGED <<now, listeners, thumbnail>>

SetVolumeLevel(volume) ==
    Dispatch("async_set_volume_level", async_set_volume_level(self, volume))

TurnOff == Dispatch("async_turn_off", async_turn_off(self))

MediaSeek(position) ==
    Dispatch("async_media_seek", async_media_seek(self, position, now))

VolumeUp == Dispatch("async_volume_up", async_volume_up(self))

VolumeDown == Dispatch("async_volume_down", async_volume_down(self))

MuteVolume(mute) ==
    Dispatch("async_mute_volume", async_mute_volume(self, mute))

MediaPlay == Dispatch("async_media_play", async_media_play(self))

MediaPause == Dispatch("async_media_pause", async_media_pause(self))

MediaStop == Dispatch("async_media_stop", async_media_stop(self))

MediaNextTrack ==
    Dispatch("async_media_next_track", async_media_next_track(self))

MediaPreviousTrack ==
    Dispatch("async_media_previous_track", async_media_previous_track(self))

\* async_play_media up to its first await, or to its return when the media
\* type is refused.
PlayMediaCall(media_type, media_id, kwargs) ==
    LET arg == [media_id |-> media_id, kwargs |-> kwargs]
    IN  IF ~MediaTypeAccepted(media_type)
        THEN /\ Len(tasks) < MaxTasks
             /\ ev' = Event("async_play_media", "returned", NoExc, <<>>, 0)
             /\ UNCHANGED <<self, now, listeners, thumbnail, tasks>>
        ELSE IF IsMediaSourceId(media_id)
        THEN /\ Len(tasks) < MaxTasks
             /\ tasks' = Append(tasks, Task("resolve", arg, 0))
             /\ ev' = Event("async_play_media", "suspended", NoExc, <<>>, 0)
             /\ UNCHANGED <<self, now, listeners, thumbnail>>
        ELSE Dispatch("async_play_media", PlayMedia(self, media_id, kwargs))

Remove(seq, i) == SubSeq(seq, 1, i - 1) \o SubSeq(seq, i + 1, Len(seq))

\* media_source.async_resolve_media returns to task i, which runs on to the
\* await of mqtt.async_publish.
ResolveReturns(i) ==
    /\ i \in DOMAIN tasks
    /\ tasks[i].pc = "resolve"
    /\ LET task == tasks[i]
           c == PlayMedia(self, ResolvedUrl(task.arg.media_id),
                          task.arg.kwargs)
           call == SendCommand(c.self, c.command, c.data, c.info)
       IN  /\ self' = c.self
           /\ tasks' = [tasks EXCEPT ![i] =
                           Task("publish", None, task.published + 1)]
           /\ ev' = Event("async_play_media", "suspended", NoExc, <<call>>, 0)
    /\ UNCHANGED <<now, listeners, thumbnail>>

\* media_source.async_resolve_media raises in task i (an id it cannot
\* resolve); no handler catches it, and async_play_media ends before any
\* assignment.
ResolveRaises(i) ==
    /\ i \in DOMAIN tasks
    /\ tasks[i].pc = "resolve"
    /\ tasks' = Remove(tasks, i)
    /\ ev' = Event("async_play_media", "raised", "Unresolvable", <<>>, 0)
    /\ UNCHANGED <<self, now, listeners, thumbnail>>

\* mqtt.async_publish returns to task i, which returns to its caller.
PublishReturns(i) ==
    /\ i \in DOMAIN tasks
    /\ tasks[i].pc = "publish"
    /\ tasks' = Remove(tasks, i)
    /\ ev' = Event("await", "returned", NoExc, <<>>, 0)
    /\ UNCHANGED <<self, now, listeners, thumbnail>>

\* The failure of mqtt.async_publish caught and dropped in task i.
PublishRaisesSwallowed(i) ==
    /\ i \in DOMAIN tasks
    /\ tasks[i].pc = "publish"
    /\ tasks' = Remove(tasks, i)
    /\ ev' = Event("await", "returned", NoExc, <<>>, 0)
    /\ UNCHANGED <<self, now, listeners, thumbnail>>

\* mqtt.async_publish raises in task i; no handler catches it.
PublishRaises(i) ==
    /\ i \in DOMAIN tasks
    /\ tasks[i].pc = "publish"
    /\ tasks' = Remove(tasks, i)
    /\ ev' = Event("await", "raised", "HomeAssistantError", <<>>, 0)
    /\ UNCHANGED <<self, now, listeners, thumbnail>>

\* The mirror is added and its topics are subscribed.
Subscribes ==
    \/ AddedToHass
    \/ SubscribeReturns

\* A subscription fails; the mirror is removed.
Unsubscribes ==
    \/ SubscribeRaises
    \/ WillRemoveFromHass

Handlers(messages) ==
    \/ Subscribes
    \/ \E message \in messages : Updated(message)

Thumbnail == \E bytes \in Thumbnails : UpdateThumbnail(bytes)

\* in: the arguments the callers choose from.
Plays(in) ==
    \E media_type \in in.media_types, media_id \in in.media_ids,
       kwargs \in in.kwargs :
        PlayMediaCall(media_type, media_id, kwargs)

\* The commands that assign to the mirror.
Optimistic(in) ==
    \/ TurnOff
    \/ \E position \in in.positions : MediaSeek(position)
    \/ MediaPlay
    \/ MediaPause
    \/ MediaStop
    \/ Plays(in)

\* The commands that only publish.
Plain(in) ==
    \/ \E volume \in in.fractions : SetVolumeLevel(volume)
    \/ VolumeUp
    \/ VolumeDown
    \/ \E mute \in in.mutes : MuteVolume(mute)
    \/ MediaNextTrack
    \/ MediaPreviousTrack

Commands(in) == Optimistic(in) \/ Plain(in)

\* The await of the media resolution ends.
Resolves ==
    \/ \E i \in 1..MaxTasks : ResolveReturns(i)
    \/ \E i \in 1..MaxTasks : ResolveRaises(i)

\* The await of the publish ends.
Publishes ==
    \/ \E i \in 1..MaxTasks : PublishReturns(i)
    \/ \E i \in 1..MaxTasks : PublishRaises(i)

Awaits == Resolves \/ Publishes

FewArguments ==
    [fractions |-> {<<1, 2>>}, positions |-> Positions, mutes |-> {TRUE},
     media_types |-> {Chars("music"), Chars("video/mp4")},
     media_ids |-> {<<"media-source://", "x">>},
     kwargs |-> {[extra |-> None]}]

AllArguments ==
    [fractions |-> Fractions, positions |-> Positions, mutes |-> BOOLEAN,
     media_types |-> MediaTypes, media_ids |-> MediaIds, kwargs |-> Kwargs]

\* Every argument of the commands but play_media, which is called with one
\* accepted and one refused type, a media-source id and a title.
CmdArguments ==
    [AllArguments EXCEPT
        !.media_types = {Chars("music"), Chars("video/mp4")},
        !.media_ids = {<<"media-source://", "x">>},
        !.kwargs = {[extra |-> Some([metadata |->
                      Some([NoMetadata EXCEPT !.title = Some("Song A")])])]}]

\* Coarse clock: an instant every three seconds.
Instants == {InitNow + k * 3 * TicksPerSecond : k \in 0..MaxTicks}

\* Every snapshot, seek as the one command, no thumbnail.
Next ==
    \/ Tick(Instants)
    \/ Handlers(Messages)
    \/ \E position \in Positions : MediaSeek(position)
    \/ Publishes

Spec == Init /\ [][Next]_vars

\* One snapshot, every command with every argument but for play_media, no
\* thumbnail.
NextCmd ==
    \/ Tick(Instants)
    \/ Handlers(CmdMessages)
    \/ Commands(CmdArguments)
    \/ Awaits

SpecCmd == Init /\ [][NextCmd]_vars

\* One snapshot, play_media with every argument and no other command, no
\* thumbnail, the clock at rest.
NextPlay ==
    \/ Handlers(CmdMessages)
    \/ Plays(AllArguments)
    \/ Awaits

SpecPlay == Init /\ [][NextPlay]_vars

\* Fine clock: instants a tick apart at the start and around the
\* availability threshold after it; few snapshots, play_media, no
\* thumbnail.
ClockInstants ==
    {InitNow + k : k \in 0..MaxClockTicks}
    \cup {InitNow + (AvailableThreshold - 1) * TicksPerSecond + k :
            k \in (TicksPerSecond \div 2 - 1)..(TicksPerSecond \div 2 + 1)}
    \cup {InitNow + AvailableThreshold * TicksPerSecond + k :
            k \in 0..MaxClockTicks}

NextClock ==
    \/ Tick(ClockInstants)
    \/ Handlers(ClockMessages)
    \/ Plays(FewArguments)
    \/ Awaits

SpecClock == Init /\ [][NextClock]_vars

\* A snapshot of each kind, every command that assigns to the mirror with
\* few arguments, no thumbnail.
NextMix ==
    \/ Tick(Instants)
    \/ Handlers(MixMessages)
    \/ Optimistic(FewArguments)
    \/ Awaits

SpecMix == Init /\ [][NextMix]_vars

\* The inbound side alone: snapshots and thumbnails, delivered or not, and
\* no command.
NextFeed ==
    \/ Tick(Instants)
    \/ Handlers(Messages)
    \/ Unsubscribes
    \/ Thumbnail
    \/ \E topic \in Topics : Undelivered(topic)

SpecFeed == Init /\ [][NextFeed]_vars

TypeOK ==
    /\ now \in Instants \cup ClockInstants
    /\ listeners \in [helper : Helpers, prepared : BOOLEAN,
                      subscribed : SUBSET Topics,
                      handles : [Topics -> {"none", "live", "used"}],
                      adding : 0..Len(TopicOrder), stale : BOOLEAN,
                      removed : BOOLEAN]
    /\ Len(tasks) <= MaxTasks

(***************************************************************************)
(* Properties.                                                             *)
(***************************************************************************)
Elapsed == now - self.last_updated

\* C1 as stated: at every read, available is true iff the time since
\* lastUpdated is strictly less than 5 seconds, whole or not.
C1_AvailableIffUnderFiveSeconds ==
    Available(self, now) <=> Elapsed < AvailableThreshold * TicksPerSecond

\* C1 amended: at every read, available is true iff the time since
\* lastUpdated, rounded to whole seconds with ties to even, is less than 5,
\* that is iff it is at most 4.5 seconds.
C1_AvailableIffAtMostFourAndAHalf ==
    Available(self, now) <=>
        2 * Elapsed <= (2 * AvailableThreshold - 1) * TicksPerSecond

\* A snapshot was applied more than 4.5 and less than 5 seconds ago, and
\* the mirror reads unavailable.
C1_Witness ==
    /\ self.last_updated >= InitNow
    /\ 2 * Elapsed > (2 * AvailableThreshold - 1) * TicksPerSecond
    /\ Elapsed < AvailableThreshold * TicksPerSecond
    /\ ~Available(self, now)

RequiredKeys == {"state", "volume", "muted"}

Malformed(message) ==
    \/ ~message.is_json
    \/ ~(RequiredKeys \subseteq message.obj.keys)

\* C2: a state message that is not JSON or lacks state, volume or muted
\* leaves every field of the mirror at its value before the message.
C2_MalformedLeavesMirror ==
    [][\A message \in Messages :
          (Malformed(message) /\ Updated(message)) => self' = self]_vars

SixNames == {OFF, IDLE, PLAYING, PAUSED, STANDBY, BUFFERING}

StateKnown(message) == Lower(message.obj.state) \in SixNames
StateIsOff(message) == Lower(message.obj.state) = "off"

\* The complete snapshots by the cases of the claims.
KnownMessages == {m \in CompleteMessages : StateKnown(m)}
UnknownMessages == {m \in CompleteMessages : ~StateKnown(m)}
OffMessages == {m \in CompleteMessages : StateIsOff(m)}
TitledMessages ==
    {m \in CompleteMessages : ~StateIsOff(m) /\ Truthy(m.obj.title)}

\* C3: after a complete snapshot whose state, lower-cased, is one of the six
\* names, the state property reads the member of that name.
C3_SnapshotStateReadsAsNamed ==
    [][ev'.op = "updated" =>
          \A message \in KnownMessages :
              Updated(message) =>
                  StateOf(self') = Lower(message.obj.state)]_vars

\* C4: a state string that is none of the six names reads Idle and raises
\* nothing; and the state property reads Off neither initially nor after any
\* step but a snapshot whose state is "off" (or a step that leaves the
\* stored state of a mirror already reading Off alone).
C4_OffOnlyFromOffSnapshot ==
    /\ StateOf(self) # OFF
    /\ [][/\ ev'.op = "updated" =>
                \A message \in UnknownMessages :
                    Updated(message) =>
                        /\ StateOf(self') = IDLE
                        /\ ev'.exc = NoExc
          /\ StateOf(self') = OFF =>
                \/ \E message \in Messages :
                      /\ message.is_json
                      /\ Has(message.obj, "state")
                      /\ StateIsOff(message)
                      /\ Updated(message)
                \/ StateOf(self) = OFF /\ self'.state = self.state]_vars

\* A snapshot with an unknown state string was applied and reads Idle.
C4_Witness ==
    /\ ev.op = "updated"
    /\ ev.phase = "returned"
    /\ self.state = "weird"
    /\ StateOf(self) = IDLE

TrackFields(s) ==
    <<s.media_title, s.media_artist, s.media_album_name, s.media_album_artist,
      s.media_duration, s.media_position, s.media_position_updated_at>>

\* C5 as stated: a complete snapshot whose state is "off" in any letter case
\* leaves the track and position fields as they were, and changes nothing
\* but state, volume, muted and last_updated.
C5_OffChangesOnlyStatus ==
    [][ev'.op = "updated" =>
          \A message \in OffMessages :
              Updated(message) =>
                  /\ TrackFields(self') = TrackFields(self)
                  /\ self' = [self EXCEPT
                                !.state = self'.state,
                                !.volume_level = self'.volume_level,
                                !.muted = self'.muted,
                                !.last_updated = self'.last_updated]]_vars

\* C5 amended: a complete snapshot whose state is "off" in any letter case
\* leaves the track and position fields as they were, and changes nothing
\* but state, volume, muted, the _available flag and last_updated.
C5_OffFreezesTrack ==
    [][ev'.op = "updated" =>
          \A message \in OffMessages :
              Updated(message) =>
                  /\ TrackFields(self') = TrackFields(self)
                  /\ self' = [self EXCEPT
                                !.state = self'.state,
                                !.volume_level = self'.volume_level,
                                !.muted = self'.muted,
                                !.available = self'.available,
                                !.last_updated = self'.last_updated]]_vars

\* An "off" snapshot was applied after the track and position were stored.
C5_Witness ==
    /\ ev.op = "updated"
    /\ ev.phase = "returned"
    /\ self.state = "off"
    /\ self.media_title = Some("A")
    /\ self.media_position_updated_at # None
    /\ self.media_position_updated_at # Some(self.last_updated)

\* The snapshots with state, volume and muted, a state other than "off" and
\* a non-empty title.
ValidTitledMessages ==
    {m \in Messages :
        /\ m.is_json
        /\ RequiredKeys \subseteq m.obj.keys
        /\ ~StateIsOff(m)
        /\ Has(m.obj, "title")
        /\ Truthy(m.obj.title)}

\* C6: a snapshot with state, volume and muted, a state other than "off"
\* and a non-empty title replaces title, artist, album name and album
\* artist by the snapshot's four values (never some of them only), duration
\* and position by the snapshot's, and the position timestamp by the
\* current time.
C6_TitledSnapshotReplacesTrack ==
    [][ev'.op = "updated" =>
          \A message \in ValidTitledMessages :
              Updated(message) =>
                  /\ self'.media_title = message.obj.title
                  /\ self'.media_artist = message.obj.artist
                  /\ self'.media_album_name = message.obj.albumtitle
                  /\ self'.media_album_artist = message.obj.albumartist
                  /\ self'.media_duration = message.obj.duration
                  /\ self'.media_position = message.obj.currentposition
                  /\ self'.media_position_updated_at = Some(now)]_vars

\* What holds instead: a titled snapshot that carries all of its keys
\* replaces the four names, duration and position and stamps the position.
C6_CompleteTitledSnapshotReplacesTrack ==
    [][ev'.op = "updated" =>
          \A message \in TitledMessages :
              Updated(message) =>
                  /\ self'.media_title = message.obj.title
                  /\ self'.media_artist = message.obj.artist
                  /\ self'.media_album_name = message.obj.albumtitle
                  /\ self'.media_album_artist = message.obj.albumartist
                  /\ self'.media_duration = message.obj.duration
                  /\ self'.media_position = message.obj.currentposition
                  /\ self'.media_position_updated_at = Some(now)]_vars

Untitled(message) ==
    \/ ~Has(message.obj, "title")
    \/ ~Truthy(message.obj.title)

\* C7: a snapshot with state, volume and muted, a state other than "off" and
\* a title that is absent, null or empty leaves title, artist, album name
\* and album artist as they were, stores duration and position, and stamps
\* the position timestamp and last_updated.
C7_UntitledSnapshotKeepsTrack ==
    [][ev'.op = "updated" =>
          \A message \in Messages :
              (/\ message.is_json
               /\ RequiredKeys \subseteq message.obj.keys
               /\ ~StateIsOff(message)
               /\ Untitled(message)
               /\ Updated(message)) =>
                  /\ self'.media_title = self.media_title
                  /\ self'.media_artist = self.media_artist
                  /\ self'.media_album_name = self.media_album_name
                  /\ self'.media_album_artist = self.media_album_artist
                  /\ self'.media_duration = message.obj.duration
                  /\ self'.media_position = message.obj.currentposition
                  /\ self'.media_position_updated_at = Some(now)
                  /\ self'.last_updated = now]_vars

\* C8: the stored volume is an integer in 0..100 and volume_level is a
\* fraction in [0, 1].
C8_VolumeInRange ==
    /\ self.volume_level \in 0..100
    /\ LET level == VolumeLevel(self)
       IN  0 <= level[1] /\ level[1] <= level[2]

Called(op) == ev'.op = op /\ ev'.phase = "suspended"

\* The step made exactly one publish: command with data, without info, on
\* the command topic.
Sent(command, data) ==
    ev'.published =
        <<[topic |-> self.command_topic,
           payload |-> << <<"command", command>>, <<"data", data>>,
                          <<"info", None>> >>]>>

OnlyState(s) == self' = [self EXCEPT !.state = s] /\ StateOf(self') = s

\* C9: every command but play_media sends the command of the table and
\* changes the fields the table lists, and no other.
C9_CommandTable ==
    [][/\ Called("async_turn_off") => Sent("pause", None) /\ OnlyState(IDLE)
       /\ Called("async_media_stop") => Sent("pause", None) /\ OnlyState(IDLE)
       /\ Called("async_media_pause") =>
            Sent("pause", None) /\ OnlyState(PAUSED)
       /\ Called("async_media_play") =>
            Sent("play", None) /\ OnlyState(PLAYING)
       /\ Called("async_media_seek") =>
            \A position \in Positions :
                MediaSeek(position) =>
                    /\ Sent("seek", Some(position))
                    /\ self' = [self EXCEPT
                                  !.media_position = Some(position),
                                  !.media_position_updated_at = Some(now)]
       /\ Called("async_media_next_track") => Sent("next", None) /\ self' = self
       /\ Called("async_media_previous_track") =>
            Sent("previous", None) /\ self' = self
       /\ Called("async_volume_up") => Sent("volumeup", None) /\ self' = self
       /\ Called("async_volume_down") =>
            Sent("volumedown", None) /\ self' = self
       /\ Called("async_mute_volume") =>
            \A mute \in BOOLEAN :
                MuteVolume(mute) => Sent("mute", None) /\ self' = self
       /\ Called("async_set_volume_level") =>
            \A volume \in Fractions :
                SetVolumeLevel(volume) =>
                    /\ \E n \in 0..100 : Sent("setvolume", Some(n))
                    /\ self' = self]_vars

\* stop was called on a mirror that a snapshot had set to "playing" and
\* muted: it reads Idle and the rest of the snapshot is in place.
C9_Witness ==
    /\ ev.op = "async_media_stop"
    /\ ev.phase = "suspended"
    /\ StateOf(self) = IDLE
    /\ self.muted
    /\ self.volume_level = 40
    /\ self.media_title = Some("A")

IsEnvelope(payload) ==
    /\ Len(payload) = 3
    /\ payload[1][1] = "command"
    /\ payload[2][1] = "data"
    /\ payload[3][1] = "info"

NoData ==
    {"async_turn_off", "async_media_stop", "async_media_pause",
     "async_media_play", "async_media_next_track",
     "async_media_previous_track", "async_volume_up", "async_volume_down",
     "async_mute_volume"}

\* Every publish carries the members command, data and info (data and info
\* null for the commands that have none) and goes to the command topic of
\* the construction, which never changes.
PublishesWellFormed ==
    /\ self.command_topic = CommandTopic(DeviceName)
    /\ Len(ev.published) <= 1
    /\ \A k \in DOMAIN ev.published :
          /\ ev.published[k].topic = CommandTopic(DeviceName)
          /\ IsEnvelope(ev.published[k].payload)
          /\ ev.op \in NoData =>
                /\ ev.published[k].payload[2][2] = None
                /\ ev.published[k].payload[3][2] = None

\* A step that suspends a command is its call, with its one publish made,
\* the call of play_media awaiting the resolution with no publish made, or
\* the return of that resolution with the one publish made.
SuspendsWithOnePublish ==
    ev'.phase = "suspended" /\ ev'.op # "async_added_to_hass" =>
        \/ /\ Len(ev'.published) = 1
           /\ tasks' = Append(tasks, Task("publish", None, 1))
        \/ /\ Len(ev'.published) = 1
           /\ \E i \in DOMAIN tasks :
                 /\ tasks[i].pc = "resolve"
                 /\ tasks[i].published = 0
                 /\ tasks' = [tasks EXCEPT ![i] = Task("publish", None, 1)]
        \/ /\ ev'.op = "async_play_media"
           /\ ev'.published = <<>>
           /\ Len(tasks') = Len(tasks) + 1
           /\ tasks'[Len(tasks')].pc = "resolve"
           /\ tasks'[Len(tasks')].published = 0

\* C10 as stated: a command that is not refused has made exactly one
\* publish, never none and never more, when it ends; every publish carries
\* the members command, data and info (data and info null for the commands
\* that have none) and goes to the command topic of the construction, which
\* never changes.
C10_OnePublishPerCommand ==
    /\ []PublishesWellFormed
    /\ [][/\ SuspendsWithOnePublish
          /\ Len(tasks') < Len(tasks) =>
                \E i \in DOMAIN tasks :
                    /\ tasks' = Remove(tasks, i)
                    /\ tasks[i].published = 1
                    /\ ev'.published = <<>>]_vars

\* C10 amended: a command that is not refused has made exactly one publish
\* when it ends, but for a play_media whose media resolution raises, which
\* ends with that exception and no publish; every publish carries the
\* members command, data and info (data and info null for the commands that
\* have none) and goes to the command topic of the construction, which never
\* changes.
C10_OnePublishUnlessUnresolved ==
    /\ []PublishesWellFormed
    /\ [][/\ SuspendsWithOnePublish
          /\ Len(tasks') < Len(tasks) =>
                \E i \in DOMAIN tasks :
                    /\ tasks' = Remove(tasks, i)
                    /\ ev'.published = <<>>
                    /\ \/ tasks[i].published = 1 /\ ev'.op = "await"
                       \/ /\ tasks[i].pc = "resolve"
                          /\ tasks[i].published = 0
                          /\ ev'.op = "async_play_media"
                          /\ ev'.phase = "raised"
                          /\ ev'.exc = "Unresolvable"]_vars

\* A command has returned from its one publish.
C10_Witness ==
    /\ ev.op = "await"
    /\ ev.phase = "returned"
    /\ tasks = <<>>
    /\ self.state = PLAYING
    /\ self.media_id # <<>>

\* The media types of the inputs that start with none of "music", "audio/"
\* and "provider".
RefusedTypes == {Chars("video/mp4"), Chars("audio")}

\* C11: play_media with a media type that starts with none of "music",
\* "audio/" and "provider" returns at once: it publishes nothing, starts no
\* resolution (no coroutine is left suspended) and leaves every field of the
\* mirror and the stored thumbnail as they were.
C11_RefusedPlayMediaHasNoEffect ==
    [][ev'.op = "async_play_media" =>
          \A media_type \in RefusedTypes, media_id \in MediaIds,
             kwargs \in Kwargs :
              PlayMediaCall(media_type, media_id, kwargs) =>
                  /\ self' = self
                  /\ tasks' = tasks
                  /\ thumbnail' = thumbnail
                  /\ ev'.phase = "returned"
                  /\ ev'.published = <<>>]_vars

\* play_media was refused on a mirror that a snapshot had filled.
C11_Witness ==
    /\ ev.op = "async_play_media"
    /\ ev.phase = "returned"
    /\ tasks = <<>>
    /\ self.state = "playing"
    /\ self.media_title = Some("A")
    /\ self.media_id = <<>>

AcceptedTypes == MediaTypes \ RefusedTypes

Absent(o) == o = None \/ o = Some("")

\* What C12 says of the step in which play_media, called with kwargs, sets
\* the mirror and publishes.
PlayedWith(kwargs) ==
    LET metadata == MetadataOf(kwargs)
        title == IF Absent(metadata.title) THEN Some("Home Assistant")
                 ELSE metadata.title
        album_name == IF Absent(metadata.album_name) THEN metadata.albumtitle
                      ELSE metadata.album_name
        album_artist == IF Absent(metadata.album_artist)
                        THEN metadata.albumartist
                        ELSE metadata.album_artist
        image_url == IF metadata.images = <<>> THEN metadata.imageUrl
                     ELSE metadata.images[1].url
    IN  /\ StateOf(self') = PLAYING
        /\ self'.media_title = title
        /\ self'.media_artist = metadata.artist
        /\ self'.media_album_name = album_name
        /\ self'.media_album_artist = album_artist
        /\ self'.media_image_url = image_url
        /\ self'.media_id[1] # "media-source://"
        /\ self' = [self EXCEPT
                      !.state = self'.state,
                      !.available = self'.available,
                      !.media_id = self'.media_id,
                      !.media_title = self'.media_title,
                      !.media_artist = self'.media_artist,
                      !.media_album_name = self'.media_album_name,
                      !.media_album_artist = self'.media_album_artist,
                      !.media_image_url = self'.media_image_url]
        /\ ev'.published =
              <<[topic |-> self.command_topic,
                 payload |->
                   << <<"command", "playmedia">>,
                      <<"data", Some(self'.media_id)>>,
                      <<"info", Some(<< <<"title", self'.media_title>>,
                                        <<"artist", self'.media_artist>>,
                                        <<"albumtitle",
                                          self'.media_album_name>>,
                                        <<"albumartist",
                                          self'.media_album_artist>>,
                                        <<"image_url",
                                          self'.media_image_url>> >>)>> >>]>>

\* The call of an accepted play_media: with a direct URL it sets the mirror
\* and publishes at once, with that URL as the media id; with a media-source
\* id it awaits the resolution and touches nothing.
PlayMediaCalled ==
    ev'.op = "async_play_media" /\ tasks' # tasks =>
        \A media_type \in AcceptedTypes, media_id \in MediaIds,
           kwargs \in Kwargs :
            PlayMediaCall(media_type, media_id, kwargs) =>
                IF media_id[1] = "media-source://"
                THEN self' = self /\ ev'.published = <<>>
                ELSE PlayedWith(kwargs) /\ self'.media_id = media_id

\* C12 as stated: an accepted play_media with a direct URL sets the mirror
\* and publishes at once; with a media-source id it first awaits the
\* resolution, and when that await ends it sets the mirror and publishes.
\* The mirror then reads Playing, holds the metadata title (the placeholder
\* "Home Assistant" when there is none), the metadata artist, album name,
\* album artist and image URL, and the one "playmedia" publish carries the
\* mirror's media id as data and the mirror's title, artist, album name,
\* album artist and image URL as info.
C12_PlayMediaSetsAndSends ==
    [][/\ PlayMediaCalled
       /\ \A i \in DOMAIN tasks :
              ResolveReturns(i) \/ ResolveRaises(i) =>
                  /\ PlayedWith(tasks[i].arg.kwargs)
                  /\ tasks[i].published = 0
                  /\ tasks'[i].published = 1]_vars

\* C12 amended: as C12, when the resolution returns; when the resolution
\* raises, play_media ends with that exception, publishes nothing and
\* leaves every field of the mirror as it was.
C12_PlayMediaSetsAndSendsIfResolved ==
    [][/\ PlayMediaCalled
       /\ \A i \in DOMAIN tasks :
              /\ ResolveReturns(i) =>
                    /\ PlayedWith(tasks[i].arg.kwargs)
                    /\ tasks[i].published = 0
                    /\ tasks'[i].published = 1
              /\ ResolveRaises(i) =>
                    /\ self' = self
                    /\ ev'.published = <<>>
                    /\ ev'.phase = "raised"
                    /\ ev'.exc = "Unresolvable"
                    /\ tasks[i].published = 0
                    /\ tasks' = Remove(tasks, i)]_vars

\* play_media with a media-source id and the title "Song A" has resolved
\* the id, set the mirror and published.
C12_Witness ==
    /\ ev.op = "async_play_media"
    /\ ev.phase = "suspended"
    /\ Len(ev.published) = 1
    /\ StateOf(self) = PLAYING
    /\ self.media_title = Some("Song A")
    /\ self.media_id = <<"http://hass:8123", "/media/", "x", "?authSig">>

\* The step in which play_media sets the mirror and publishes.
PlayMediaApplied == ev'.op = "async_play_media" /\ Len(ev'.published) = 1

\* C13: as soon as an accepted play_media has set the mirror, the available
\* property reads true, whether or not a snapshot was ever applied and
\* however old the last one is.
C13_AvailableAfterPlayMedia ==
    [][PlayMediaApplied => Available(self', now')]_vars

\* The mirror b is the mirror a but for last_updated and, when the snapshot
\* stores a position, for the position timestamp.
SameButStamps(a, b, message) ==
    b = [a EXCEPT
           !.last_updated = b.last_updated,
           !.media_position_updated_at =
               IF StateIsOff(message) THEN @ ELSE b.media_position_updated_at]

\* C14: whatever the mirror holds, applying a complete snapshot returns
\* normally, and applying the same snapshot again, then or at a later
\* instant, returns normally and leaves every field as the first application
\* left it, but for last_updated and, unless the state is "off", the
\* position timestamp, which take the time of the second application.
C14_SnapshotIdempotent ==
    \A message \in CompleteMessages :
        LET once == updated(self, message, now)
        IN  /\ once.exc = NoExc
            /\ \A t \in {i \in Instants : i >= now} :
                   LET again == updated(once.self, message, t)
                   IN  /\ again.exc = NoExc
                       /\ SameButStamps(once.self, again.self, message)
                       /\ again.self.last_updated = t
                       /\ ~StateIsOff(message) =>
                             again.self.media_position_updated_at = Some(t)

\* A snapshot with a title and a position was applied to a mirror that held
\* an earlier one.
C14_Witness ==
    /\ ev.op = "updated"
    /\ ev.phase = "returned"
    /\ now > InitNow
    /\ self.last_updated = now
    /\ self.media_title = Some("B")
    /\ self.media_position = Some(20)
    /\ self.volume_level = 40

Arrival == {"updated", "update_thumbnail", "undelivered"}

\* C15: once async_will_remove_from_hass has run, a state or thumbnail
\* message that arrives runs no callback: no field of the mirror
\* (last_updated and the _available flag included) and no stored thumbnail
\* changes, and async_write_ha_state is not called.
C15_NoDeliveryAfterRemoval ==
    [][listeners.removed /\ ev'.op \in Arrival =>
          /\ ev'.op = "undelivered"
          /\ self' = self
          /\ thumbnail' = thumbnail
          /\ ev'.writes = 0]_vars

OptimisticOps ==
    {"async_turn_off", "async_media_play", "async_media_pause",
     "async_media_stop", "async_media_seek", "async_play_media"}

\* C16: async_write_ha_state is called once in the step that applies a
\* snapshot, and once in the step in which an optimistic command (turn_off,
\* play, pause, stop, seek, an accepted play_media) sets the mirror and
\* publishes; the steps that finish a command call it no more.
C16_NotifiesOncePerChange ==
    [][/\ ev'.op = "updated" /\ ev'.phase = "returned" => ev'.writes = 1
       /\ ev'.op \in OptimisticOps /\ Len(ev'.published) = 1 =>
             ev'.writes = 1
       /\ ev'.op = "await" => ev'.writes = 0]_vars

\* What the commands do instead: no step but a snapshot calls
\* async_write_ha_state.
OnlySnapshotsNotify == ev.op # "updated" => ev.writes = 0

\* The steps that run no code of a snapshot, thumbnail or command method
\* up to its publish.
Passive ==
    {"await", "tick", "undelivered", "async_added_to_hass",
     "async_will_remove_from_hass"}

\* C17: when mqtt.async_publish fails in a suspended command, the command
\* ends by raising that failure to its caller: it publishes nothing more,
\* is no longer pending, and leaves every field of the mirror, the
\* optimistic values it stored included, as it was; and the mirror changes
\* in no step but a snapshot, a thumbnail or a command.
C17_PublishFailurePropagates ==
    [][/\ \A i \in 1..MaxTasks :
              PublishRaises(i) =>
                  /\ ev'.phase = "raised"
                  /\ ev'.exc = "HomeAssistantError"
                  /\ ev'.published = <<>>
                  /\ tasks[i].published = 1
                  /\ tasks' = Remove(tasks, i)
                  /\ self' = self
       /\ self' # self => ev'.op \notin Passive]_vars

\* The publish of a play_media with the title "Song A" has failed, and the
\* mirror still reads Playing with that title.
C17_Witness ==
    /\ ev.op = "await"
    /\ ev.phase = "raised"
    /\ tasks = <<>>
    /\ StateOf(self) = PLAYING
    /\ self.media_title = Some("Song A")
    /\ self.media_id # <<>>

Abs(x) == IF x < 0 THEN -x ELSE x

\* n is an integer nearest to 100 times the fraction.
NearestPercent(n, volume) ==
    2 * Abs(n * volume[2] - 100 * volume[1]) <= volume[2]

\* The setvolume payloads of the examples; at a tie (0.005, 0.015) round()
\* takes the even neighbour.
PercentExamples ==
    { <<<<1, 2>>, 50>>, <<<<1, 1>>, 100>>, <<<<4, 1000>>, 0>>,
      <<<<0, 1>>, 0>>, <<<<7, 1000>>, 1>>, <<<<1, 200>>, 0>>,
      <<<<3, 200>>, 2>> }

\* C18: set_volume_level with a fraction in [0, 1] publishes "setvolume"
\* with an integer of 0..100 that is nearest to 100 times the fraction
\* (0.5 -> 50, 1.0 -> 100, 0.004 -> 0, 0.007 -> 1), and changes no field of
\* the mirror, the stored volume included.
C18_SetVolumeRounds ==
    [][Called("async_set_volume_level") =>
          \A volume \in Fractions :
              SetVolumeLevel(volume) =>
                  /\ \E n \in 0..100 :
                        /\ Sent("setvolume", Some(n))
                        /\ NearestPercent(n, volume)
                        /\ \A e \in PercentExamples : e[1] = volume => e[2] = n
                  /\ self' = self
                  /\ self'.volume_level = self.volume_level]_vars

\* set_volume_level(0.007) was called on a mirror whose stored volume a
\* snapshot had set to 40: 1 was sent and 40 is still stored.
C18_Witness ==
    /\ ev.op = "async_set_volume_level"
    /\ ev.phase = "suspended"
    /\ Len(ev.published) = 1
    /\ ev.published[1].payload[2] = <<"data", Some(1)>>
    /\ self.volume_level = 40

\* The step just taken is the one in which an optimistic command set the
\* mirror and published.
JustMutated == ev.op \in OptimisticOps /\ Len(ev.published) = 1

Titled(message) == Truthy(message.obj.title)

NamesOf(s) ==
    <<s.media_title, s.media_artist, s.media_album_name, s.media_album_artist>>

NamesIn(message) ==
    <<message.obj.title, message.obj.artist, message.obj.albumtitle,
      message.obj.albumartist>>

\* C19 as stated: a complete snapshot applied right after an optimistic
\* command stores its state, volume and muted; after seek it stores its
\* position with the current time; after play_media it stores its title,
\* artist and album fields (when it has a title), and the media id and the
\* image URL that play_media stored do not remain.
C19_SnapshotOverwritesOptimistic ==
    [][JustMutated /\ ev'.op = "updated" =>
          \A message \in MixMessages :
              Updated(message) =>
                  /\ self'.state = Lower(message.obj.state)
                  /\ self'.volume_level = message.obj.volume
                  /\ self'.muted = message.obj.muted
                  /\ ev.op = "async_media_seek" =>
                        /\ self'.media_position = message.obj.currentposition
                        /\ self'.media_position_updated_at = Some(now)
                  /\ ev.op = "async_play_media" =>
                        /\ Titled(message) =>
                              NamesOf(self') = NamesIn(message)
                        /\ self'.media_id # self.media_id
                        /\ self.media_image_url # None =>
                              self'.media_image_url # self.media_image_url
                  ]_vars

\* C19 amended: a complete snapshot applied right after an optimistic
\* command always stores its state, volume and muted; unless its state is
\* "off" it stores its duration and position with the current time, and if
\* moreover its title is non-empty its title, artist and album fields.  The
\* values it does not store stay as the command left them: duration,
\* position, position timestamp, title, artist and album fields under an
\* "off" snapshot, title, artist and album fields under a snapshot without
\* title, and the media id and the image URL under every snapshot.
C19_SnapshotOverwritesWhatItCarries ==
    [][JustMutated /\ ev'.op = "updated" =>
          \A message \in MixMessages :
              Updated(message) =>
                  /\ self'.state = Lower(message.obj.state)
                  /\ self'.volume_level = message.obj.volume
                  /\ self'.muted = message.obj.muted
                  /\ self'.media_id = self.media_id
                  /\ self'.media_image_url = self.media_image_url
                  /\ IF StateIsOff(message)
                     THEN TrackFields(self') = TrackFields(self)
                     ELSE /\ self'.media_duration = message.obj.duration
                          /\ self'.media_position =
                                message.obj.currentposition
                          /\ self'.media_position_updated_at = Some(now)
                          /\ NamesOf(self') =
                                IF Titled(message) THEN NamesIn(message)
                                ELSE NamesOf(self)]_vars

\* An "off" snapshot was applied while play_media was still awaiting its
\* publish: the mirror is "off" and keeps the placeholder title and the
\* media id that play_media stored.
C19_Witness ==
    /\ ev.op = "updated"
    /\ ev.phase = "returned"
    /\ tasks # <<>>
    /\ tasks[1].pc = "publish"
    /\ self.state = "off"
    /\ self.media_title = Some("Home Assistant")
    /\ self.media_id = <<"http://hass:8123", "/media/", "x", "?authSig">>

\* The suspended command i runs on from its await.
Resumes(i) ==
    \/ ResolveReturns(i)
    \/ ResolveRaises(i)
    \/ PublishReturns(i)
    \/ PublishRaises(i)

\* C20: a command sets the mirror in the step of its call and in no later
\* one; so when a snapshot has been applied while a command was suspended at
\* an await (of the media resolution or of the publish), the step in which
\* that command runs on changes no field of the mirror.
C20_ResumedCommandKeepsSnapshot ==
    [][ev.op = "updated" /\ ev.phase = "returned" =>
          \A i \in DOMAIN tasks : Resumes(i) => self' = self]_vars

\* What holds instead: only the return of the media resolution changes the
\* mirror after a suspension.
OnlyResolutionMutatesLate ==
    [][\A i \in DOMAIN tasks :
          PublishReturns(i) \/ PublishRaises(i) => self' = self]_vars

====
